---- MODULE Spec2Model ----
(***************************************************************************)
(* xplit: two-share XOR secret splitting with CRC-32 integrity trailers.   *)
(* The model follows src/src/lib.rs (split_secret, verify_and_extract,     *)
(* recover_secret) and the base64 fixed vector of its tests.               *)
(***************************************************************************)
EXTENDS Integers, Sequences, FiniteSets, TLC

VARIABLES secret, mask, share1, share2, result, pc, origin

vars == <<secret, mask, share1, share2, result, pc, origin>>

(***************************************************************************)
(* Bounds of the model.                                                    *)
(***************************************************************************)
\* longest secret handed to split_secret
MaxLen == 2
\* longest unstructured byte string handed to recover_secret
MaxRawLen == 4

(***************************************************************************)
(* Bytes (u8) and 32-bit words (u32).  A u32 is kept as its two 16-bit     *)
(* halves, so that every value stays inside the checker's integer range.   *)
(***************************************************************************)
Byte == 0..255

RECURSIVE XorBits(_, _, _)
XorBits(a, b, n) ==
    IF n = 0 THEN 0
    ELSE ((a + b) % 2) + 2 * XorBits(a \div 2, b \div 2, n - 1)

\* the u8 `^` operator, tabulated once over all pairs of bytes
XorTable == [a \in Byte |-> [b \in Byte |-> XorBits(a, b, 8)]]

XorByte(a, b) == XorTable[a][b]

U32(hi, lo) == [hi |-> hi, lo |-> lo]

XorU32(x, y) ==
    U32(XorByte(x.hi \div 256, y.hi \div 256) * 256 + XorByte(x.hi % 256, y.hi % 256),
        XorByte(x.lo \div 256, y.lo \div 256) * 256 + XorByte(x.lo % 256, y.lo % 256))

Shr1(x) == U32(x.hi \div 2, (x.hi % 2) * 32768 + x.lo \div 2)

Shr8(x) == U32(x.hi \div 256, (x.hi % 256) * 256 + x.lo \div 256)

\* u32::to_be_bytes: most significant byte first
to_be_bytes(x) == <<x.hi \div 256, x.hi % 256, x.lo \div 256, x.lo % 256>>

\* u32::from_be_bytes
from_be_bytes(b) == U32(b[1] * 256 + b[2], b[3] * 256 + b[4])

(***************************************************************************)
(* CRC-32 (IEEE 802.3, reflected polynomial 0xEDB88320), as computed by    *)
(* crc32fast::Hasher: new() starts from 0, update() runs the table-driven  *)
(* byte loop on the complemented state, finalize() returns the state.      *)
(***************************************************************************)
\* mutant: the Castagnoli polynomial (CRC-32C, 0x82F63B78) instead of IEEE
CrcPolyCastagnoli == U32(33526, 15224)

CrcPoly == U32(60856, 33568)

AllOnes == U32(65535, 65535)

RECURSIVE CrcRounds(_, _)
CrcRounds(c, n) ==
    IF n = 0 THEN c
    ELSE CrcRounds(IF c.lo % 2 = 1 THEN XorU32(Shr1(c), CrcPoly) ELSE Shr1(c), n - 1)

CrcTable == [n \in Byte |-> CrcRounds(U32(0, n), 8)]

RECURSIVE CrcUpdate(_, _, _)
CrcUpdate(c, data, i) ==
    IF i > Len(data) THEN c
    ELSE CrcUpdate(XorU32(CrcTable[XorByte(c.lo % 256, data[i])], Shr8(c)), data, i + 1)

Crc32(data) == XorU32(CrcUpdate(AllOnes, data, 1), AllOnes)

(***************************************************************************)
(* Result<T, ShareError>: ok with a value, or one of the three errors.     *)
(***************************************************************************)
ShareError == {"InvalidChecksum", "ShareTooShort", "EmptyInput"}

Ok(v) == [ok |-> TRUE, val |-> v, err |-> "none"]

Err(e) == [ok |-> FALSE, val |-> <<>>, err |-> e]

Min(a, b) == IF a <= b THEN a ELSE b

\* a.iter().zip(b.iter()).map(|(x, y)| x ^ y).collect(): zip stops at the
\* end of the shorter side
XorZip(a, b) == [i \in 1..Min(Len(a), Len(b)) |-> XorByte(a[i], b[i])]

\* mutant: the checksum appended least significant byte first
append_crc_le(data) ==
    LET b == to_be_bytes(Crc32(data)) IN data \o <<b[4], b[3], b[2], b[1]>>

\* Hasher::new(); update(data); finalize(); extend_from_slice(&crc.to_be_bytes())
append_crc(data) == data \o to_be_bytes(Crc32(data))

\* mutant: share1 carries the secret itself, the mask is never applied
split_secret_unmasked(s, rand) ==
    IF s = <<>> THEN Err("EmptyInput")
    ELSE Ok(<<append_crc(s), append_crc(rand)>>)

\* mutant: the two shares change places
split_secret_swapped(s, rand) ==
    IF s = <<>> THEN Err("EmptyInput")
    ELSE Ok(<<append_crc(rand), append_crc(XorZip(s, rand))>>)

\* split_secret; `rand` is what rng().fill_bytes wrote into share2_data
split_secret(s, rand) ==
    IF s = <<>> THEN Err("EmptyInput")
    ELSE LET share2_data == rand
             share1_data == XorZip(s, share2_data)
         IN  Ok(<<append_crc(share1_data), append_crc(share2_data)>>)

\* mutant: no is_empty test, an empty share is just too short
verify_and_extract_no_empty(share) ==
    IF Len(share) < 4 THEN Err("ShareTooShort")
    ELSE LET data_len == Len(share) - 4
             data == SubSeq(share, 1, data_len)
         IN  IF Crc32(data) # from_be_bytes(SubSeq(share, data_len + 1, data_len + 4))
             THEN Err("InvalidChecksum")
             ELSE Ok(data)

\* mutant: a share without room for its checksum is reported as corrupted
verify_and_extract_short_as_corrupt(share) ==
    IF share = <<>> THEN Err("EmptyInput")
    ELSE IF Len(share) < 4 THEN Err("InvalidChecksum")
    ELSE LET data_len == Len(share) - 4
             data == SubSeq(share, 1, data_len)
         IN  IF Crc32(data) # from_be_bytes(SubSeq(share, data_len + 1, data_len + 4))
             THEN Err("InvalidChecksum")
             ELSE Ok(data)

\* mutant: the length test is off by one (<= 4 for < 4)
verify_and_extract_off_by_one(share) ==
    IF share = <<>> THEN Err("EmptyInput")
    ELSE IF Len(share) <= 4 THEN Err("ShareTooShort")
    ELSE LET data_len == Len(share) - 4
             data == SubSeq(share, 1, data_len)
         IN  IF Crc32(data) # from_be_bytes(SubSeq(share, data_len + 1, data_len + 4))
             THEN Err("InvalidChecksum")
             ELSE Ok(data)

\* mutant: the stored checksum is read but never compared
verify_and_extract_unchecked(share) ==
    IF share = <<>> THEN Err("EmptyInput")
    ELSE IF Len(share) < 4 THEN Err("ShareTooShort")
    ELSE Ok(SubSeq(share, 1, Len(share) - 4))

verify_and_extract(share) ==
    IF share = <<>> THEN Err("EmptyInput")
    ELSE IF Len(share) < 4 THEN Err("ShareTooShort")
    ELSE LET data_len == Len(share) - 4
             data == SubSeq(share, 1, data_len)
             stored_crc == from_be_bytes(SubSeq(share, data_len + 1, data_len + 4))
             computed_crc == Crc32(data)
         IN  IF computed_crc # stored_crc THEN Err("InvalidChecksum")
             ELSE Ok(data)

\* mutant: share2 is verified before share1
recover_secret_share2_first(s1, s2) ==
    LET data2 == verify_and_extract(s2)
    IN  IF ~data2.ok THEN data2
        ELSE LET data1 == verify_and_extract(s1)
             IN  IF ~data1.ok THEN data1
                 ELSE Ok(XorZip(data1.val, data2.val))

\* the `?` operator returns the first failing verification unchanged
recover_secret(s1, s2) ==
    LET data1 == verify_and_extract(s1)
    IN  IF ~data1.ok THEN data1
        ELSE LET data2 == verify_and_extract(s2)
             IN  IF ~data2.ok THEN data2
                 ELSE Ok(XorZip(data1.val, data2.val))

(***************************************************************************)
(* Standard base64 with padding (base64::engine::general_purpose::STANDARD)*)
(* over a text given as a sequence of characters.                          *)
(***************************************************************************)
Base64Alphabet ==
    << "A","B","C","D","E","F","G","H","I","J","K","L","M","N","O","P",
       "Q","R","S","T","U","V","W","X","Y","Z","a","b","c","d","e","f",
       "g","h","i","j","k","l","m","n","o","p","q","r","s","t","u","v",
       "w","x","y","z","0","1","2","3","4","5","6","7","8","9","+","/" >>

Sextet(ch) == (CHOOSE i \in 1..64 : Base64Alphabet[i] = ch) - 1

Unpadded(text) == SelectSeq(text, LAMBDA ch : ch # "=")

RECURSIVE Base64Groups(_, _)
Base64Groups(sx, i) ==
    LET left == Len(sx) - i + 1
        n == sx[i] * 262144 + (IF left >= 2 THEN sx[i + 1] * 4096 ELSE 0)
             + (IF left >= 3 THEN sx[i + 2] * 64 ELSE 0)
             + (IF left >= 4 THEN sx[i + 3] ELSE 0)
        bytes == <<n \div 65536, (n \div 256) % 256, n % 256>>
    IN  IF left <= 0 THEN <<>>
        ELSE IF left >= 4 THEN bytes \o Base64Groups(sx, i + 4)
        ELSE SubSeq(bytes, 1, left - 1)

Base64Decode(text) ==
    LET u == Unpadded(text)
    IN  Base64Groups([i \in 1..Len(u) |-> Sextet(u[i])], 1)

\* "ZiTjk3OD6puSVM/JV3CYopI="
share1_b64 ==
    << "Z","i","T","j","k","3","O","D","6","p","u","S",
       "V","M","/","J","V","3","C","Y","o","p","I","=" >>

\* "LkGP/xyvysz9JqOtdpOmJ8A="
share2_b64 ==
    << "L","k","G","P","/","x","y","v","y","s","z","9",
       "J","q","O","t","d","p","O","m","J","8","A","=" >>

\* "Hello, World!" as UTF-8
HelloWorld == <<72, 101, 108, 108, 111, 44, 32, 87, 111, 114, 108, 100, 33>>

(***************************************************************************)
(* Inputs.                                                                 *)
(***************************************************************************)
ByteSeqs(S, n) == UNION {[1..k -> S] : k \in 0..n}

\* byte values of secrets and masks: closed under XOR, 72 = "H"
SampleBytes == {0, 72, 183, 255}

\* byte values of unstructured shares
RawBytes == {0, 255}

\* the split pairs whose corruption is explored: secrets of the text byte
\* "H" under masks over RawBytes (payloads over {72, 183} and {0, 255})
TextBytes == {72}

Secrets == ByteSeqs(SampleBytes, MaxLen)

Masks(n) == [1..n -> SampleBytes]

SuppliedShares == ByteSeqs(RawBytes, MaxRawLen) \cup {append_crc(p) : p \in Secrets}

Over(s, S) == \A i \in 1..Len(s) : s[i] \in S

(***************************************************************************)
(* State machine: one call of the library per behaviour.                   *)
(***************************************************************************)
Init ==
    /\ secret = <<>>
    /\ mask = <<>>
    /\ share1 = <<>>
    /\ share2 = <<>>
    /\ result = Err("none")
    /\ pc = "idle"
    /\ origin = "none"

\* a caller splits a secret; the random source yields `rand`
SplitSecret ==
    /\ pc = "idle"
    /\ \E s \in Secrets : \E rand \in Masks(Len(s)) :
         LET r == split_secret(s, rand)
         IN  /\ secret' = s
             /\ mask' = rand
             /\ result' = r
             /\ share1' = IF r.ok THEN r.val[1] ELSE <<>>
             /\ share2' = IF r.ok THEN r.val[2] ELSE <<>>
             /\ pc' = IF r.ok THEN "shares" ELSE "failed"
             /\ origin' = "split"

\* a caller holds two arbitrary byte strings as shares
SupplyShares ==
    /\ pc = "idle"
    /\ \E s1 \in SuppliedShares, s2 \in SuppliedShares :
         /\ share1' = s1
         /\ share2' = s2
    /\ pc' = "shares"
    /\ origin' = "supplied"
    /\ UNCHANGED <<secret, mask, result>>

\* test_readme_example: the two shares of the README, decoded from base64
LoadReadmeShares ==
    /\ pc = "idle"
    /\ share1' = Base64Decode(share1_b64)
    /\ share2' = Base64Decode(share2_b64)
    /\ pc' = "shares"
    /\ origin' = "readme"
    /\ UNCHANGED <<secret, mask, result>>

\* one byte of one share of a recoverable pair is replaced by another value
CorruptShare ==
    /\ pc = "shares"
    /\ \/ origin = "readme"
       \/ origin = "split" /\ Over(secret, TextBytes) /\ Over(mask, RawBytes)
    /\ recover_secret(share1, share2).ok
    /\ \/ \E i \in 1..Len(share1) : \E b \in Byte \ {share1[i]} :
            /\ share1' = [share1 EXCEPT ![i] = b]
            /\ share2' = share2
       \/ \E i \in 1..Len(share2) : \E b \in Byte \ {share2[i]} :
            /\ share2' = [share2 EXCEPT ![i] = b]
            /\ share1' = share1
    /\ origin' = "corrupted"
    /\ UNCHANGED <<secret, mask, result, pc>>

RecoverSecret ==
    /\ pc = "shares"
    /\ result' = recover_secret(share1, share2)
    /\ pc' = "recovered"
    /\ UNCHANGED <<secret, mask, share1, share2, origin>>

\* verify_and_extract exercised on its own on one byte string
VerifyAndExtract ==
    /\ pc = "idle"
    /\ \E s \in SuppliedShares :
         /\ share1' = s
         /\ result' = verify_and_extract(s)
    /\ pc' = "verified"
    /\ origin' = "supplied"
    /\ UNCHANGED <<secret, mask, share2>>

Next ==
    \/ SplitSecret
    \/ SupplyShares
    \/ LoadReadmeShares
    \/ CorruptShare
    \/ RecoverSecret
    \/ VerifyAndExtract

Spec == Init /\ [][Next]_vars

(***************************************************************************)
(* Vocabulary of the properties.                                           *)
(***************************************************************************)
\* the share without its last four bytes, and those four bytes
Payload(share) == SubSeq(share, 1, Len(share) - 4)

Trailer(share) == SubSeq(share, Len(share) - 3, Len(share))

\* the trailer is the big-endian CRC-32 of the payload
ChecksumMatches(share) ==
    LET c == Crc32(Payload(share))
        b == Trailer(share)
    IN  c.hi = b[1] * 256 + b[2] /\ c.lo = b[3] * 256 + b[4]

\* what is wrong with a share, "none" when it verifies
ShareFault(share) ==
    IF Len(share) = 0 THEN "EmptyInput"
    ELSE IF Len(share) \in {1, 2, 3} THEN "ShareTooShort"
    ELSE IF ~ChecksumMatches(share) THEN "InvalidChecksum"
    ELSE "none"

(***************************************************************************)
(* C1  Round trip: recovering the two shares split_secret returned for a   *)
(* non-empty secret, whatever the mask, returns Ok of exactly that secret. *)
(***************************************************************************)
C1_RoundTrip ==
    (pc = "recovered" /\ origin = "split") => result = Ok(secret)

C1_Witness ==
    /\ pc = "recovered" /\ origin = "split"
    /\ Len(secret) = 2 /\ mask = <<183, 255>> /\ secret = <<72, 0>>
    /\ result = Ok(secret)

C5_ShareLayout ==
    (pc = "shares" /\ origin = "split") =>
        /\ Len(share1) = Len(secret) + 4
        /\ Len(share2) = Len(secret) + 4
        /\ ChecksumMatches(share1)
        /\ ChecksumMatches(share2)
        /\ \A i \in 1..Len(secret) : XorBits(share1[i], share2[i], 8) = secret[i]

C5_Witness ==
    /\ pc = "shares" /\ origin = "split"
    /\ secret = <<72, 255>> /\ mask = <<255, 72>>
    /\ Len(share1) = 6 /\ Payload(share1) = <<183, 183>>

(***************************************************************************)
(* C6  Corruption detection: after any one byte of either share of a pair  *)
(* that recovers (a split_secret output or the README pair) is changed,    *)
(* recover_secret returns InvalidChecksum, never Ok.                       *)
(***************************************************************************)
C6_CorruptionDetected ==
    (pc = "recovered" /\ origin = "corrupted") => result = Err("InvalidChecksum")

C6_Witness ==
    /\ pc = "recovered" /\ origin = "corrupted"
    /\ Len(share1) = 17
    /\ share2[13] = 162
    /\ result = Err("InvalidChecksum")

(***************************************************************************)
(* C7  Fixed vector: the two README shares decode from base64 to 17 bytes  *)
(* each, both carry the big-endian IEEE CRC-32 of their first 13 bytes,    *)
(* and recover_secret returns exactly the bytes of "Hello, World!".        *)
(***************************************************************************)
C7_FixedVector ==
    (pc = "recovered" /\ origin = "readme") =>
        /\ Len(share1) = 17 /\ Len(share2) = 17
        /\ ChecksumMatches(share1) /\ ChecksumMatches(share2)
        /\ result = Ok(HelloWorld)

C7_Witness ==
    /\ pc = "recovered" /\ origin = "readme"
    /\ share1[1] = 102 /\ share2[17] = 192
    /\ result.ok /\ Len(result.val) = 13

(***************************************************************************)
(* C8  Independent secrecy: share2's payload is the mask itself, and for a *)
(* fixed secret the map from the mask to share1's payload is one-to-one    *)
(* and onto the byte strings of the secret's length.                       *)
(***************************************************************************)
C8_IndependentSecrecy ==
    (pc = "shares" /\ origin = "split") =>
        LET L == Len(secret)
            \* the pairs <<mask, share1 payload>> of this secret
            image == {<<m, Payload(split_secret(secret, m).val[1])>> : m \in Masks(L)}
        IN  /\ Payload(share2) = mask
            /\ \A p \in image : p[2] = Payload(share1) => p[1] = mask
            /\ {p[2] : p \in image} = Masks(L)

C8_Witness ==
    /\ pc = "shares" /\ origin = "split"
    /\ secret = <<72, 183>> /\ mask = <<255, 0>>
    /\ Payload(share2) = <<255, 0>> /\ Payload(share1) = <<183, 183>>

(***************************************************************************)
(* C9  No silent truncation: when both shares verify and their payloads    *)
(* differ in length, recover_secret does not return Ok with a result cut   *)
(* to the shorter payload.                                                 *)
(***************************************************************************)
C9_NoSilentTruncation ==
    (/\ pc = "recovered"
     /\ ShareFault(share1) = "none" /\ ShareFault(share2) = "none"
     /\ Len(share1) # Len(share2))
        => ~(result.ok /\ Len(result.val) = Min(Len(share1), Len(share2)) - 4)

(***************************************************************************)
(* C10  Zero-length payload: verify_and_extract on a share of exactly four *)
(* bytes returns Ok of the empty payload when the bytes are the CRC-32 of  *)
(* the empty input (00 00 00 00) and InvalidChecksum otherwise; two such   *)
(* checksum-only shares recover to Ok of the empty secret.                 *)
(***************************************************************************)
C10_ZeroLengthPayload ==
    /\ (pc = "verified" /\ Len(share1) = 4) =>
          /\ share1 = <<0, 0, 0, 0>> => result = Ok(<<>>)
          /\ share1 # <<0, 0, 0, 0>> => result = Err("InvalidChecksum")
    /\ (pc = "recovered" /\ share1 = <<0, 0, 0, 0>> /\ share2 = <<0, 0, 0, 0>>)
          => result = Ok(<<>>)

C10_Witness ==
    /\ pc = "verified"
    /\ share1 = <<0, 0, 0, 0>>
    /\ result = Ok(<<>>)
====
